---- MODULE Spec2Model ----
(***************************************************************************)
(* Model of src/app.py: the four conversation stages (GreetingCoach,       *)
(* SkillEvaluator, ScenarioTrainer, PerformanceReviewer), the shared       *)
(* LearnerRecord, the finalization in wrap_up and the bootstrap in         *)
(* main_entry.                                                             *)
(*                                                                         *)
(* A session is either started by main_entry or started on a stage built   *)
(* by a constructor call that matches the declared signature               *)
(* __init__(self, ctx=None); the function tools of the stage that is       *)
(* active are invoked by the dialogue layer, once per stage instance.      *)
(***************************************************************************)
EXTENDS Integers, Sequences, FiniteSets, TLC

VARIABLES pc, entry, room_id, profile, active, fired, stages, events,
          lastArgs, lastRet, report, puts, putResult,
          usage, usage_log, shut, peer, cur

\* pc .. putResult, usage, usage_log and shut are the state of the session
\* whose callbacks run; peer is the state of the other session of the worker
\* and cur says which of the two sessions is the running one
vars == <<pc, entry, room_id, profile, active, fired, stages, events,
          lastArgs, lastRet, report, puts, putResult,
          usage, usage_log, shut, peer, cur>>

----------------------------------------------------------------------------
(* Values *)

\* Python None of an Optional[str] field
None == "<None>"

\* number of distinct non-empty captured strings
NumVals == 1

ValPool == <<"a", "b", "c">>

\* captured strings handed to the function tools: the empty string and
\* NumVals non-empty ones
Vals == {""} \cup {ValPool[i] : i \in 1..NumVals}

OptVals == Vals \cup {None}

\* job.room.name
Rooms == {"r1", "r2"}

\* the sessions of a worker, one per connected room
Sessions == {1, 2}

\* the room of each session
RoomOf(sid) == IF sid = 1 THEN "r1" ELSE "r2"

\* number of metrics_collected events delivered to a session
MaxMetrics == 1

\* dialogue contexts a stage can be constructed with: ChatContext.empty()
\* and a context that already holds a turn
EmptyChatCtx == << >>

ChatCtxs == {EmptyChatCtx, <<"turn">>}

S3_STORAGE == "lingua-feedback-data"

Fields == {"purpose", "occupation", "estimated_skill", "practice_topic",
           "highlights", "improvements"}

\* LearnerRecord(): every field defaults to None
LearnerRecord == [f \in Fields |-> None]

Profiles == [Fields -> OptVals]

\* userdata a session can start with: the feedback fields are written by
\* wrap_up alone and are still unset
EntryProfiles == {p \in Profiles : p.highlights = None /\ p.improvements = None}

StageOrder == <<"GreetingCoach", "SkillEvaluator", "ScenarioTrainer",
                "PerformanceReviewer">>

StageClasses == {StageOrder[i] : i \in 1..Len(StageOrder)}

\* no agent installed in the session
NoStage == [ok |-> FALSE, cls |-> "None", chat_ctx |-> EmptyChatCtx]

----------------------------------------------------------------------------
(* Stage constructors *)

\* the only parameter every stage __init__ declares besides self
InitParam(cls) == "ctx"

\* the keyword every construction site in the module passes
CallSiteKw == "chat_ctx"

\* Cls(<kw>=c): binds c to ctx and forwards it as the Agent's chat_ctx, or
\* raises TypeError (ok = FALSE) for a keyword the signature does not declare
Construct(cls, kw, c) ==
    IF kw = InitParam(cls)
    THEN [ok |-> TRUE, cls |-> cls, chat_ctx |-> c]
    ELSE [ok |-> FALSE, cls |-> "TypeError", chat_ctx |-> EmptyChatCtx]

\* allow_interruptions of the generate_reply call in on_enter
on_enter_allow_interruptions == FALSE

\* allow_interruptions of the closing generate_reply call in wrap_up
closing_allow_interruptions == FALSE

\* on_enter of every stage: one opening turn, interruptions disallowed
on_enter == <<"open_turn">>

----------------------------------------------------------------------------
(* Report (wrap_up, lines 165-183) *)

\* Python "x or d" on an Optional[str]: None and the empty string are falsy
OrDefault(x, d) == IF x = None \/ x = "" THEN d ELSE x

EnglishKeys == <<"Purpose", "Occupation", "Skill Estimate",
                 "Scenario Practiced", "Strengths", "Areas to Improve">>

\* the six Arabic labels of arabic_summary, transliterated, in source order
ArabicKeys == <<"al-hadaf", "al-mihna", "al-mustawa al-muqaddar",
                "al-mashhad al-tadribi", "niqat al-quwwa",
                "niqat al-tahsin">>

\* the profile field (or wrap_up argument) behind the i-th entry
FieldOrder == <<"purpose", "occupation", "estimated_skill",
                "practice_topic", "highlights", "improvements">>

\* english_summary without the fallback on Occupation
english_summary_no_fallback(p, strengths, improvements) ==
    (EnglishKeys[1] :> OrDefault(p.purpose, "N/A")) @@
    (EnglishKeys[2] :> p.occupation) @@
    (EnglishKeys[3] :> OrDefault(p.estimated_skill, "N/A")) @@
    (EnglishKeys[4] :> OrDefault(p.practice_topic, "N/A")) @@
    (EnglishKeys[5] :> strengths) @@
    (EnglishKeys[6] :> improvements)

english_summary(p, strengths, improvements) ==
    (EnglishKeys[1] :> OrDefault(p.purpose, "N/A")) @@
    (EnglishKeys[2] :> OrDefault(p.occupation, "N/A")) @@
    (EnglishKeys[3] :> OrDefault(p.estimated_skill, "N/A")) @@
    (EnglishKeys[4] :> OrDefault(p.practice_topic, "N/A")) @@
    (EnglishKeys[5] :> strengths) @@
    (EnglishKeys[6] :> improvements)

\* arabic_summary with two entries copied from the wrong English entry
arabic_summary_swapped(en, strengths, improvements) ==
    (ArabicKeys[1] :> en["Occupation"]) @@
    (ArabicKeys[2] :> en["Purpose"]) @@
    (ArabicKeys[3] :> en["Skill Estimate"]) @@
    (ArabicKeys[4] :> en["Scenario Practiced"]) @@
    (ArabicKeys[5] :> strengths) @@
    (ArabicKeys[6] :> improvements)

arabic_summary(en, strengths, improvements) ==
    (ArabicKeys[1] :> en["Purpose"]) @@
    (ArabicKeys[2] :> en["Occupation"]) @@
    (ArabicKeys[3] :> en["Skill Estimate"]) @@
    (ArabicKeys[4] :> en["Scenario Practiced"]) @@
    (ArabicKeys[5] :> strengths) @@
    (ArabicKeys[6] :> improvements)

compile(p, strengths, improvements) ==
    LET en == english_summary(p, strengths, improvements)
    IN  [english |-> en,
         arabic  |-> arabic_summary(en, strengths, improvements)]

EmptyMap == [k \in {} |-> ""]

\* no report has been built
NoReport == [english |-> EmptyMap, arabic |-> EmptyMap]

\* a key that does not depend on the room
filename_fixed(room) == <<"lingua_feedback_", "report", ".json">>

\* f"lingua_feedback_{room_id}.json"
filename(room) == <<"lingua_feedback_", room, ".json">>

\* the keyword arguments of s3_resource.put_object
put_object(room, rep) ==
    [Bucket |-> S3_STORAGE, Key |-> filename(room), Body |-> rep,
     ContentType |-> "application/json"]

----------------------------------------------------------------------------
(* Profile writes of the four function tools *)

store_basics_write(p, purpose, occupation) ==
    [p EXCEPT !.purpose = purpose, !.occupation = occupation]

\* assign_rating writing a field of another stage
assign_rating_write_purpose(p, rating) ==
    [p EXCEPT !.estimated_skill = rating, !.purpose = rating]

assign_rating_write(p, rating) == [p EXCEPT !.estimated_skill = rating]

mark_topic_write(p, topic) == [p EXCEPT !.practice_topic = topic]

wrap_up_write(p, strengths, improvements) ==
    [p EXCEPT !.highlights = strengths, !.improvements = improvements]

\* the keyword arguments of a tool call, None for the fields it does not take
Args(given) == [f \in Fields |-> IF f \in DOMAIN given THEN given[f] ELSE None]

----------------------------------------------------------------------------
(* Return values of the function tools *)

store_basics_next(self) == Construct("SkillEvaluator", CallSiteKw, self.chat_ctx)

store_basics_say == <<"Great! Let's quickly check your English fluency.">>

assign_rating_next(self) == Construct("ScenarioTrainer", CallSiteKw, self.chat_ctx)

assign_rating_say(rating) ==
    <<"Your level is around ", rating, ". Let's practice with a scenario.">>

mark_topic_next(self) == Construct("PerformanceReviewer", CallSiteKw, self.chat_ctx)

mark_topic_say(topic) == <<"Nice job! You've finished the ", topic, " scenario.">>

\* wrap_up handing off to a fresh first stage
wrap_up_next_restart(self) == Construct("GreetingCoach", "ctx", self.chat_ctx)

\* wrap_up has no return statement: it returns None, no next stage
wrap_up_next(self) == NoStage

\* wrap_up storing the report before the feedback is written
wrap_up_calls_put_first(putOk) ==
    <<"interrupt", "put_object", "write_feedback">>
    \o (IF putOk THEN <<"log_info">> ELSE <<"log_error">>)
    \o <<"generate_reply">>

\* wrap_up without the except clause: a put that raises ends the handler
wrap_up_calls_no_except(putOk) ==
    <<"interrupt", "write_feedback", "put_object">>
    \o (IF putOk THEN <<"log_info", "generate_reply">> ELSE << >>)

\* wrap_up retrying a put that raised
wrap_up_calls_retry(putOk) ==
    <<"interrupt", "write_feedback", "put_object">>
    \o (IF putOk THEN <<"log_info">> ELSE <<"log_error", "put_object">>)
    \o <<"generate_reply">>

\* calls wrap_up makes up to its first await, in source order; a put that
\* raises is caught and logged, and the closing turn is requested either way
wrap_up_calls(putOk) ==
    <<"interrupt", "write_feedback", "put_object">>
    \o (IF putOk THEN <<"log_info">> ELSE <<"log_error">>)
    \o <<"generate_reply">>

\* the room deleted whether or not the closing turn returned
after_reply_always_delete(ok) ==
    IF ok THEN <<"reply_done", "delete_room">> ELSE <<"reply_raised", "delete_room">>

\* a closing turn that raised is requested again
after_reply_retry(ok) ==
    IF ok THEN <<"reply_done", "delete_room">> ELSE <<"reply_raised", "generate_reply">>

\* what follows the awaited closing turn: the room deletion when it returned,
\* nothing when it raised
after_reply(ok) == IF ok THEN <<"reply_done", "delete_room">> ELSE <<"reply_raised">>

\* what the tool returned last
NoRet == [kind |-> "none", next |-> NoStage, utterance |-> << >>]

----------------------------------------------------------------------------
(* State machine *)

\* one module-level LearnerRecord handed to every session
userdata_ref_shared(sid) == 1

\* the LearnerRecord object a session holds as userdata: main_entry builds
\* a new one in every invocation (line 219), no module-level record exists
userdata_ref(sid) == sid

\* a write to the running session's userdata, seen from the other session:
\* visible there only if both hold the same object
Alias(other, p) ==
    IF userdata_ref(1) = userdata_ref(2) THEN [other EXCEPT !.profile = p]
    ELSE other

\* the state of one session
SessionState ==
    [pc |-> pc, entry |-> entry, room_id |-> room_id, profile |-> profile,
     active |-> active, fired |-> fired, stages |-> stages, events |-> events,
     lastArgs |-> lastArgs, lastRet |-> lastRet, report |-> report,
     puts |-> puts, putResult |-> putResult,
     usage |-> usage, usage_log |-> usage_log, shut |-> shut]

\* a session before its job has started
NewSession ==
    [pc |-> "init", entry |-> "none", room_id |-> "none",
     profile |-> LearnerRecord, active |-> NoStage, fired |-> FALSE,
     stages |-> << >>, events |-> << >>, lastArgs |-> Args(EmptyMap),
     lastRet |-> NoRet, report |-> NoReport, puts |-> << >>,
     putResult |-> "none", usage |-> 0, usage_log |-> << >>, shut |-> FALSE]

\* what a stage callback leaves alone: the usage tracker, the shutdown state
\* and the other session
SessionFrame ==
    /\ UNCHANGED <<usage, usage_log, shut, cur>>
    /\ peer' = Alias(peer, profile')

Init ==
    /\ usage = 0
    /\ usage_log = << >>
    /\ shut = FALSE
    /\ peer = NewSession
    /\ cur = 1
    /\ pc = "init"
    /\ entry = "none"
    /\ room_id = "none"
    /\ profile = LearnerRecord
    /\ active = NoStage
    /\ fired = FALSE
    /\ stages = << >>
    /\ events = << >>
    /\ lastArgs = Args(EmptyMap)
    /\ lastRet = NoRet
    /\ report = NoReport
    /\ puts = << >>
    /\ putResult = "none"

\* AgentSession.start(agent=...): the agent becomes the active stage and its
\* on_enter runs; a constructor that raised leaves the session unstarted
Start(agent, evs) ==
    IF agent.ok
    THEN /\ pc' = "running"
         /\ active' = agent
         /\ stages' = <<agent.cls>>
         /\ events' = evs \o on_enter
    ELSE /\ pc' = "raised"
         /\ active' = NoStage
         /\ stages' = << >>
         /\ events' = evs

\* main_entry: connect, a fresh LearnerRecord, the session, the metrics hook,
\* then session.start(agent=GreetingCoach(chat_ctx=chat_state))
main_entry(room) ==
    /\ pc = "init"
    /\ entry' = "main_entry"
    /\ room_id' = room
    /\ profile' = LearnerRecord
    /\ Start(Construct("GreetingCoach", CallSiteKw, EmptyChatCtx), <<"connect">>)
    /\ UNCHANGED <<fired, lastArgs, lastRet, report, puts, putResult>>
    /\ SessionFrame

\* a session started on cls(ctx=c), the call the declared signature accepts,
\* with a LearnerRecord in any state as its userdata
stage_entry(cls, c, prof, room) ==
    /\ pc = "init"
    /\ entry' = "stage"
    /\ room_id' = room
    /\ profile' = prof
    /\ Start(Construct(cls, "ctx", c), << >>)
    /\ UNCHANGED <<fired, lastArgs, lastRet, report, puts, putResult>>
    /\ SessionFrame

\* the tool returned (next, say), or raised while building next: a next stage
\* is installed, speaks say and enters; a raise leaves the stage in place
Handoff(next, say, evs) ==
    IF next.ok
    THEN /\ active' = next
         /\ fired' = FALSE
         /\ stages' = Append(stages, next.cls)
         /\ lastRet' = [kind |-> "handoff", next |-> next, utterance |-> say]
         /\ events' = events \o evs \o <<"say">> \o on_enter
    ELSE /\ active' = active
         /\ fired' = TRUE
         /\ stages' = stages
         /\ lastRet' = [kind |-> next.cls, next |-> NoStage, utterance |-> << >>]
         /\ events' = events \o evs \o <<"tool_error">>

store_basics(purpose, occupation) ==
    /\ pc = "running" /\ active.cls = "GreetingCoach" /\ ~fired
    /\ profile' = store_basics_write(profile, purpose, occupation)
    /\ lastArgs' = Args([purpose |-> purpose, occupation |-> occupation])
    /\ Handoff(store_basics_next(active), store_basics_say, <<"log_info">>)
    /\ UNCHANGED <<pc, entry, room_id, report, puts, putResult>>
    /\ SessionFrame

assign_rating(rating) ==
    /\ pc = "running" /\ active.cls = "SkillEvaluator" /\ ~fired
    /\ profile' = assign_rating_write(profile, rating)
    /\ lastArgs' = Args([estimated_skill |-> rating])
    /\ Handoff(assign_rating_next(active), assign_rating_say(rating), << >>)
    /\ UNCHANGED <<pc, entry, room_id, report, puts, putResult>>
    /\ SessionFrame

mark_topic(topic) ==
    /\ pc = "running" /\ active.cls = "ScenarioTrainer" /\ ~fired
    /\ profile' = mark_topic_write(profile, topic)
    /\ lastArgs' = Args([practice_topic |-> topic])
    /\ Handoff(mark_topic_next(active), mark_topic_say(topic), << >>)
    /\ UNCHANGED <<pc, entry, room_id, report, puts, putResult>>
    /\ SessionFrame

\* wrap_up up to its first await (lines 156-203): interrupt, the two profile
\* writes, the report, the put (putOk: it returned; otherwise it raised and
\* the except clause logged the error), the request of the closing turn
wrap_up(strengths, improvements, putOk) ==
    /\ pc = "running" /\ active.cls = "PerformanceReviewer" /\ ~fired
    /\ fired' = TRUE
    /\ profile' = wrap_up_write(profile, strengths, improvements)
    /\ lastArgs' = Args([highlights |-> strengths, improvements |-> improvements])
    /\ report' = compile(profile', strengths, improvements)
    /\ putResult' = IF putOk THEN "ok" ELSE "raised"
    /\ puts' = IF putOk THEN Append(puts, put_object(room_id, report')) ELSE puts
    /\ events' = events \o wrap_up_calls(putOk)
    /\ pc' = "await_reply"
    /\ UNCHANGED <<entry, room_id, active, stages, lastRet>>
    /\ SessionFrame

\* the awaited closing turn returns (line 200): wrap_up goes on to request
\* the room deletion, or the error propagates out of wrap_up
closing_turn_returns(ok) ==
    /\ pc = "await_reply"
    /\ events' = events \o after_reply(ok)
    /\ pc' = IF ok THEN "await_delete" ELSE "raised"
    /\ lastRet' = IF ok THEN lastRet
                  ELSE [kind |-> "raised", next |-> NoStage, utterance |-> << >>]
    /\ UNCHANGED <<entry, room_id, profile, active, fired, stages, lastArgs,
                   report, puts, putResult>>
    /\ SessionFrame

\* the awaited delete_room returns (line 205) and wrap_up returns None, or
\* the error propagates out of wrap_up
delete_room_returns(ok) ==
    /\ pc = "await_delete"
    /\ pc' = IF ok THEN "done" ELSE "raised"
    /\ LET next == wrap_up_next(active)
       IN  IF ok /\ next.ok
           THEN /\ active' = next
                /\ stages' = Append(stages, next.cls)
                /\ lastRet' = [kind |-> "handoff", next |-> next, utterance |-> << >>]
                /\ events' = events \o <<"delete_done">> \o on_enter
           ELSE /\ active' = active
                /\ stages' = stages
                /\ lastRet' = [kind |-> IF ok THEN "end" ELSE "raised",
                               next |-> NoStage, utterance |-> << >>]
                /\ events' = events \o (IF ok THEN <<"delete_done">> ELSE <<"delete_raised">>)
    /\ UNCHANGED <<entry, room_id, profile, fired, lastArgs, report, puts, putResult>>
    /\ SessionFrame

Next ==
    \/ \E room \in Rooms : main_entry(room)
    \/ \E cls \in StageClasses, c \in ChatCtxs, prof \in EntryProfiles, room \in Rooms :
          stage_entry(cls, c, prof, room)
    \/ \E purpose \in Vals, occupation \in Vals : store_basics(purpose, occupation)
    \/ \E rating \in Vals : assign_rating(rating)
    \/ \E topic \in Vals : mark_topic(topic)
    \/ \E strengths \in Vals, improvements \in Vals, putOk \in BOOLEAN :
          wrap_up(strengths, improvements, putOk)
    \/ \E ok \in BOOLEAN : closing_turn_returns(ok)
    \/ \E ok \in BOOLEAN : delete_room_returns(ok)

Spec == Init /\ [][Next]_vars

----------------------------------------------------------------------------
(* Metrics hook and shutdown callback (main_entry, lines 237-247) *)

\* ev.metrics of a metrics_collected event
MetricVals == {1}

\* usage_tracker.collect(ev.metrics): the collector accumulates
usage_collect(u, ev) == u + ev

\* collect logs the metrics of the event and a summary that logs everything
\* collected so far
collect_logs_with_summary(ev) ==
    <<[kind |-> "log_metrics", value |-> ev], [kind |-> "usage_summary", value |-> ev]>>

\* metrics.log_metrics(ev.metrics): one log record per event
collect_logs(ev) == <<[kind |-> "log_metrics", value |-> ev]>>

\* logger.info(f"Usage summary: {usage_tracker.get_summary()}")
report_usage_logs(u) == <<[kind |-> "usage_summary", value |-> u]>>

\* the callback registered with session.on("metrics_collected"): runs
\* whenever a started session emits the event
collect(ev) ==
    /\ pc \in {"running", "await_reply", "await_delete"}
    /\ Len(usage_log) < MaxMetrics
    /\ usage' = usage_collect(usage, ev)
    /\ usage_log' = usage_log \o collect_logs(ev)
    /\ UNCHANGED <<pc, entry, room_id, profile, active, fired, stages, events,
                   lastArgs, lastRet, report, puts, putResult, shut, cur>>
    /\ peer' = Alias(peer, profile')

\* the shutdown callback added with ctx.add_shutdown_callback: runs once,
\* when the job of the session has ended
report_usage ==
    /\ pc \in {"done", "raised"} /\ ~shut
    /\ shut' = TRUE
    /\ usage_log' = usage_log \o report_usage_logs(usage)
    /\ UNCHANGED <<pc, entry, room_id, profile, active, fired, stages, events,
                   lastArgs, lastRet, report, puts, putResult, usage, cur>>
    /\ peer' = Alias(peer, profile')

\* the worker goes on with the callbacks of the other session: the two jobs
\* run main_entry separately, each on its own locals
Swap ==
    /\ cur' = 3 - cur
    /\ peer' = SessionState
    /\ pc' = peer.pc
    /\ entry' = peer.entry
    /\ room_id' = peer.room_id
    /\ profile' = peer.profile
    /\ active' = peer.active
    /\ fired' = peer.fired
    /\ stages' = peer.stages
    /\ events' = peer.events
    /\ lastArgs' = peer.lastArgs
    /\ lastRet' = peer.lastRet
    /\ report' = peer.report
    /\ puts' = peer.puts
    /\ putResult' = peer.putResult
    /\ usage' = peer.usage
    /\ usage_log' = peer.usage_log
    /\ shut' = peer.shut

\* two sessions of one worker, each in its own room and on a fresh
\* LearnerRecord, with the metrics hook and the shutdown callback
NextSessions ==
    \/ main_entry(RoomOf(cur))
    \/ \E cls \in StageClasses :
          stage_entry(cls, EmptyChatCtx, LearnerRecord, RoomOf(cur))
    \/ \E v \in Vals : store_basics(v, v)
    \/ \E rating \in Vals : assign_rating(rating)
    \/ \E topic \in Vals : mark_topic(topic)
    \/ \E v \in Vals, putOk \in BOOLEAN : wrap_up(v, v, putOk)
    \/ \E ok \in BOOLEAN : closing_turn_returns(ok)
    \/ \E ok \in BOOLEAN : delete_room_returns(ok)
    \/ \E ev \in MetricVals : collect(ev)
    \/ report_usage
    \/ Swap

SpecSessions == Init /\ [][NextSessions]_vars

\* a session in which the dialogue layer fires the tool of the active stage
\* and the closing turn and the transport calls return without error
NextLive ==
    \/ \E room \in Rooms : main_entry(room)
    \/ \E cls \in StageClasses, c \in ChatCtxs, prof \in EntryProfiles, room \in Rooms :
          stage_entry(cls, c, prof, room)
    \/ \E purpose \in Vals, occupation \in Vals : store_basics(purpose, occupation)
    \/ \E rating \in Vals : assign_rating(rating)
    \/ \E topic \in Vals : mark_topic(topic)
    \/ \E strengths \in Vals, improvements \in Vals, putOk \in BOOLEAN :
          wrap_up(strengths, improvements, putOk)
    \/ closing_turn_returns(TRUE)
    \/ delete_room_returns(TRUE)

SpecLive == Init /\ [][NextLive]_vars /\ WF_vars(NextLive)

TypeOK ==
    /\ pc \in {"init", "running", "await_reply", "await_delete", "done", "raised"}
    /\ entry \in {"none", "main_entry", "stage"}
    /\ room_id \in Rooms \cup {"none"}
    /\ profile \in Profiles
    /\ active.cls \in StageClasses \cup {"None"}
    /\ fired \in BOOLEAN
    /\ putResult \in {"none", "ok", "raised"}
    /\ Len(puts) <= 1

----------------------------------------------------------------------------
(* Properties *)

Has(e) == \E i \in 1..Len(events) : events[i] = e

Count(e) == Cardinality({i \in 1..Len(events) : events[i] = e})

\* every e in the trace comes before every g in the trace
Before(e, g) ==
    \A i, j \in 1..Len(events) : (events[i] = e /\ events[j] = g) => i < j

IsPrefix(s, t) == Len(s) <= Len(t) /\ \A i \in 1..Len(s) : s[i] = t[i]

\* the profile fields each stage's function tool owns
Owned(cls) ==
    CASE cls = "GreetingCoach" -> {"purpose", "occupation"}
      [] cls = "SkillEvaluator" -> {"estimated_skill"}
      [] cls = "ScenarioTrainer" -> {"practice_topic"}
      [] cls = "PerformanceReviewer" -> {"highlights", "improvements"}
      [] OTHER -> {}

\* wrap_up has run up to its first await
Finalizing == putResult # "none"

\* C1: a session started by main_entry activates exactly GreetingCoach,
\* SkillEvaluator, ScenarioTrainer, PerformanceReviewer in this order: the
\* first stage is active once main_entry has run, the stages activated so far
\* are a prefix of the order, and a session that has ended went through all four.
C1_StageSequence ==
    (entry = "main_entry" /\ pc # "init") =>
        /\ stages # << >>
        /\ IsPrefix(stages, StageOrder)
        /\ (pc \in {"done", "raised"} => stages = StageOrder)

C3_OwnedFieldsOnly ==
    [][pc # "init" =>
        /\ \A f \in Fields : profile'[f] # profile[f] => f \in Owned(active.cls)
        /\ pc = "running" =>
              \A f \in Fields :
                  profile'[f] = IF f \in Owned(active.cls) THEN lastArgs'[f]
                                ELSE profile[f]]_vars

C3_Witness ==
    /\ active.cls = "SkillEvaluator" /\ fired
    /\ lastArgs.estimated_skill = "a" /\ profile.estimated_skill = "a"
    /\ profile.purpose = "" /\ profile.occupation = None
    /\ profile.practice_topic = "a"

\* C4: in an execution of wrap_up the put comes after the feedback write and
\* before the room-deletion request, and the closing turn is requested after
\* the interrupt.
C4_FinalizationOrder ==
    Finalizing =>
        /\ Has("interrupt") /\ Has("write_feedback") /\ Has("put_object")
        /\ Has("generate_reply")
        /\ Before("write_feedback", "put_object")
        /\ Before("put_object", "delete_room")
        /\ Before("interrupt", "generate_reply")
        /\ (pc \in {"await_delete", "done"} => Has("delete_room"))

C4_Witness == pc = "await_delete" /\ Has("put_object") /\ Has("delete_room")

\* C5: when the put raises, the error is logged and nothing is stored, the
\* closing turn is still requested, and the room deletion is requested once
\* the closing turn has returned, as after a put that succeeded.
C5_PutFailureSwallowed ==
    (putResult = "raised") =>
        /\ Count("log_error") = 1 /\ puts = << >>
        /\ Before("put_object", "log_error")
        /\ Count("generate_reply") = 1
        /\ Before("log_error", "generate_reply")
        /\ pc \in {"await_reply", "await_delete", "done", "raised"}
        /\ (pc = "raised" => (Has("reply_raised") \/ Has("delete_raised")))
        /\ (Has("reply_done") => Count("delete_room") = 1)

C5_Witness ==
    putResult = "raised" /\ pc = "done" /\ Has("log_error") /\ Has("delete_room")

C7_SentinelFallback ==
    Finalizing =>
        \A i \in 1..6 :
            profile[FieldOrder[i]] = None =>
                /\ report.english[EnglishKeys[i]] = "N/A"
                /\ report.arabic[ArabicKeys[i]] = "N/A"

C7_Witness ==
    /\ Finalizing
    /\ \A i \in 1..4 : profile[FieldOrder[i]] = None
    /\ \A i \in 1..4 : report.english[EnglishKeys[i]] = "N/A"

FullyPopulated == \A f \in Fields : profile[f] # None

\* C8 as stated: for a profile with all six fields set, both mappings have 6
\* entries, the Arabic values equal the English ones, and every value equals
\* the profile field.
C8_ValuesEqualProfile ==
    (Finalizing /\ FullyPopulated) =>
        /\ Cardinality(DOMAIN report.english) = 6
        /\ Cardinality(DOMAIN report.arabic) = 6
        /\ \A i \in 1..6 :
              /\ report.arabic[ArabicKeys[i]] = report.english[EnglishKeys[i]]
              /\ report.english[EnglishKeys[i]] = profile[FieldOrder[i]]

\* C8 (amended): for a profile with all six fields set, both mappings have 6
\* entries, the Arabic values equal the English ones, and every value equals
\* the profile field, except that an empty purpose, occupation,
\* estimated_skill or practice_topic is rendered as "N/A".
C8_ValuesEqualProfileOrSentinel ==
    (Finalizing /\ FullyPopulated) =>
        /\ Cardinality(DOMAIN report.english) = 6
        /\ Cardinality(DOMAIN report.arabic) = 6
        /\ \A i \in 1..6 :
              /\ report.arabic[ArabicKeys[i]] = report.english[EnglishKeys[i]]
              /\ report.english[EnglishKeys[i]] =
                    IF i <= 4 /\ profile[FieldOrder[i]] = "" THEN "N/A"
                    ELSE profile[FieldOrder[i]]

C8_Witness ==
    /\ Finalizing /\ FullyPopulated
    /\ profile.purpose = "a" /\ profile.occupation = ""
    /\ report.arabic[ArabicKeys[1]] = "a" /\ report.arabic[ArabicKeys[2]] = "N/A"
    /\ report.arabic[ArabicKeys[5]] = "" /\ profile.highlights = ""

\* C9: every construction site is accepted by the constructor: main_entry
\* starts GreetingCoach on the empty dialogue context, and a non-terminal
\* function tool returns the next stage, built on the current stage's
\* dialogue context, with a non-empty utterance.
C9_ConstructorsAccept ==
    /\ [](entry = "main_entry" /\ pc # "init" =>
            (pc # "raised" /\ stages[1] = "GreetingCoach"))
    /\ [][(pc = "running" /\ lastRet' # lastRet) =>
            /\ lastRet'.kind = "handoff"
            /\ lastRet'.next.chat_ctx = active.chat_ctx
            /\ lastRet'.utterance # << >>]_vars

\* C10: the room deletion is requested at most once, only by wrap_up and
\* only after the awaited closing turn has returned.
C10_DeleteAfterFinalization ==
    /\ Count("delete_room") <= 1
    /\ Has("delete_room") =>
          /\ Finalizing /\ fired /\ active.cls = "PerformanceReviewer"
          /\ Count("reply_done") = 1
          /\ Before("generate_reply", "reply_done")
          /\ Before("reply_done", "delete_room")
          /\ Before("put_object", "delete_room")
    /\ (pc \in {"init", "running", "await_reply"} => ~Has("delete_room"))

C10_Witness == pc = "await_delete" /\ Count("delete_room") = 1 /\ Has("reply_done")

\* C11: with two sessions interleaved in any way, a callback of one session
\* leaves the profile, the active stage and the stage chain of the other
\* session unchanged.
C11_SessionsIndependent ==
    [][cur' = cur =>
        /\ peer'.profile = peer.profile
        /\ peer'.active = peer.active
        /\ peer'.stages = peer.stages]_vars

C11_Witness ==
    /\ cur = 2 /\ fired /\ peer.fired
    /\ active.cls = "GreetingCoach" /\ peer.active.cls = "SkillEvaluator"
    /\ profile.purpose = "a" /\ profile.estimated_skill = None
    /\ peer.profile.purpose = None /\ peer.profile.estimated_skill = ""

SummaryCount ==
    Cardinality({i \in 1..Len(usage_log) : usage_log[i].kind = "usage_summary"})

\* C12: a delivery of the metrics hook changes only the usage tracker and its
\* log: the profile, the active stage and the position of the session stay as
\* they are, so whatever tool could fire still can; the usage summary is
\* logged by the shutdown callback alone, once, with the accumulated usage.
C12_MetricsSideChannel ==
    /\ [][(usage' # usage /\ cur' = cur) =>
            /\ UNCHANGED <<pc, profile, active, fired, stages, events, lastArgs,
                           lastRet, report, puts, putResult, shut>>
            /\ peer' = peer]_vars
    /\ [](SummaryCount = IF shut THEN 1 ELSE 0)
    /\ [](shut => usage_log[Len(usage_log)] = [kind |-> "usage_summary", value |-> usage])

C12_Witness ==
    /\ shut /\ usage = 1 /\ pc = "done" /\ profile.highlights = "a"
    /\ Len(usage_log) = 2

\* C13: the key of the stored report is lingua_feedback_<room>.json for the
\* room of the session, whatever the profile holds, and no other room gives
\* the same key.
C13_KeyFromRoom ==
    (putResult = "ok") =>
        /\ Len(puts) = 1
        /\ puts[1].Key = <<"lingua_feedback_", room_id, ".json">>
        /\ puts[1].Bucket = "lingua-feedback-data"
        /\ \A r \in Rooms : (filename(r) = puts[1].Key) <=> (r = room_id)

C13_Witness ==
    /\ putResult = "ok" /\ room_id = "r2" /\ puts[1].Key[2] = "r2"
    /\ profile.purpose = None /\ profile.highlights = "a"

\* position of a stage in the fixed order
StageIndex(cls) == CHOOSE i \in 1..Len(StageOrder) : StageOrder[i] = cls

\* the fields of the stages before the active one are set, those of the
\* active stage and of the later stages are unset
Coupled ==
    active.ok =>
        \A i \in 1..Len(StageOrder) : \A f \in Owned(StageOrder[i]) :
            IF i < StageIndex(active.cls) THEN profile[f] # None
            ELSE profile[f] = None

\* C14: while a stage waits for or has run its tool in a session that is not
\* finalizing, the fields of the earlier stages are set and those of this and
\* the later stages are unset; a tool call keeps it so by handing over to the
\* next stage, wrap_up starts with the four earlier fields set, and a field
\* that is set is never unset again.
C14_StageProfileCoupling ==
    /\ [](entry = "main_entry" /\ pc = "running" => Coupled)
    /\ [][(pc = "running" /\ Coupled) => (pc' = "running" => Coupled')]_vars
    /\ [][(pc = "running" /\ Coupled /\ pc' = "await_reply") =>
            \A i \in 1..4 : profile[FieldOrder[i]] # None]_vars
    /\ [][pc # "init" =>
            \A f \in Fields : profile[f] # None => profile'[f] # None]_vars

\* the stage after cls in the fixed order
NextStage(cls) == StageOrder[StageIndex(cls) + 1]

\* C15: a tool call is never rejected, whatever the captured values, the
\* empty string included: the values are written as given and the call hands
\* over to the next stage, or starts finalization in the terminal stage.
C15_NoValidation ==
    [][(pc = "running" /\ ~fired /\ events' # events) =>
        /\ \A f \in Owned(active.cls) : profile'[f] = lastArgs'[f]
        /\ IF active.cls = "PerformanceReviewer"
           THEN pc' = "await_reply" /\ report' # NoReport
           ELSE /\ lastRet'.kind = "handoff"
                /\ active'.cls = NextStage(active.cls)]_vars

\* C16: one opening turn per stage that became active, requested on entry and
\* so before the stage's tool can fire, with interruptions disallowed, as for
\* the closing turn; a session started by main_entry has the opening turn of
\* its first stage, and a session that finished has had four opening turns
\* and one closing turn.
C16_OpeningTurns ==
    /\ ~on_enter_allow_interruptions /\ ~closing_allow_interruptions
    /\ Count("open_turn") = Len(stages)
    /\ (fired => Has("open_turn"))
    /\ ((entry = "main_entry" /\ pc # "init") => Count("open_turn") >= 1)
    /\ (pc = "done" => (Count("open_turn") = 4 /\ Count("generate_reply") = 1))

\* C17: wrap_up attempts the put, the closing turn and the room deletion at
\* most once each, also when they fail; a closing turn or a room deletion
\* that raises ends wrap_up with the error, and after a closing turn that
\* raised no room deletion is requested.
C17_NoRetry ==
    /\ Count("put_object") <= 1
    /\ Count("generate_reply") <= 1
    /\ Count("delete_room") <= 1
    /\ Count("reply_done") + Count("reply_raised") <= 1
    /\ Count("delete_done") + Count("delete_raised") <= 1
    /\ (putResult = "raised" => Count("put_object") = 1)
    /\ (Has("reply_raised") =>
          (pc = "raised" /\ lastRet.kind = "raised" /\ ~Has("delete_room")))
    /\ (Has("delete_raised") =>
          (pc = "raised" /\ lastRet.kind = "raised" /\ Count("delete_room") = 1))

C17_Witness ==
    /\ putResult = "raised" /\ Has("reply_raised") /\ pc = "raised"
    /\ Count("put_object") = 1 /\ Count("generate_reply") = 1

\* C18: under SpecLive, where tools keep firing and the closing turn and the
\* transport calls return, a session started by main_entry eventually
\* requests the room deletion.
C18_ReachesDeletion == (entry = "main_entry") ~> Has("delete_room")

====
